---- MODULE Spec2Model ----
(***************************************************************************)
(* A model of Kohones.py: the script that pivots (konto, paragraf, kwota)  *)
(* records into an account x paragraph matrix, min-max normalizes it,      *)
(* trains a Kohonen map (MiniSom) on it and groups the accounts by their   *)
(* winning neuron.                                                         *)
(*                                                                         *)
(* Numbers.  Amounts are integers.  A normalized entry is kept exactly as  *)
(* the pair [num, den] that stands for num / (den + 1e-10).  MiniSom works *)
(* in floating point; its numbers are modelled in fixed point, in units of *)
(* 1/Scale, and a normalized entry enters MiniSom through Fix.             *)
(*                                                                         *)
(* Strings.  A paragraph label is a sequence of one-character strings, so  *)
(* that split('.') and strip() do what they do in Python.                  *)
(***************************************************************************)
EXTENDS Integers, Sequences, FiniteSets, TLC

VARIABLES
    pc,               \* the statement the script is at
    raw_data,         \* lines 97-118: the list of records
    df,               \* lines 122-126: the cleaned records
    pivot_df,         \* line 130: [index, columns, values]
    data_normalized,  \* line 140: matrix of [num, den]
    map_size,         \* line 143
    rng,              \* the state of MiniSom's random generator
    weights,          \* som._weights: <<row, col>> -> vector
    iteration,        \* the training iteration about to run
    row_i,            \* position of the loop of lines 152-156
    winner,           \* line 153: the last winner computed
    grouped_accounts, \* line 151: sequence of [coords, accounts], insertion order
    group_i,          \* position of the loop of lines 159-166
    report,           \* what lines 160-166 printed: [coords, accounts, top_para]
    error,            \* the exception that ended the script, or "none"
    runs,             \* how many times the script has been started
    first_run         \* the grouped_accounts of the first run, once it is over

vars == <<pc, raw_data, df, pivot_df, data_normalized, map_size, rng, weights,
          iteration, row_i, winner, grouped_accounts, group_i, report, error,
          runs, first_run>>

----------------------------------------------------------------------------
(* Bounds of the model *)

\* longest list of records
MaxRecords == 3
\* largest number of accounts the grid sizing is applied to
MaxRows == 30
\* num_iteration of line 147 (1000 in the script), capped
MaxIter == 3
\* the generator is seeded from 0..MaxSeed
MaxSeed == 2
\* fixed-point resolution of MiniSom's numbers
Scale == 1000

----------------------------------------------------------------------------
(* Small helpers *)

SeqsUpTo(S, n) == UNION {[1..k -> S] : k \in 0..n}

\* x / y rounded toward zero, y > 0
TruncDiv(x, y) == IF x >= 0 THEN x \div y ELSE -((-x) \div y)

Min2(a, b) == IF a <= b THEN a ELSE b

\* the sum of a sequence of numbers, by halves
RECURSIVE SumSeq(_)
SumSeq(s) ==
    IF Len(s) = 0 THEN 0
    ELSE IF Len(s) = 1 THEN s[1]
    ELSE SumSeq(SubSeq(s, 1, Len(s) \div 2))
            + SumSeq(SubSeq(s, Len(s) \div 2 + 1, Len(s)))

\* Python's order on characters (code points), for the characters used here
CharCode(c) ==
    CASE c = " " -> 32
      [] c = "." -> 46
      [] c = "0" -> 48
      [] c = "1" -> 49
      [] c = "2" -> 50

\* Python's str < str
RECURSIVE StrLess(_, _)
StrLess(a, b) ==
    IF b = <<>> THEN FALSE
    ELSE IF a = <<>> THEN TRUE
    ELSE IF Head(a) = Head(b) THEN StrLess(Tail(a), Tail(b))
    ELSE CharCode(Head(a)) < CharCode(Head(b))

----------------------------------------------------------------------------
(* Part 1 of the script: cleaning *)

\* clean_currency on a number: float(value)
clean_currency(value) == value

\* str.split('.')[0]: the text before the first dot
RECURSIVE SplitDotFirst(_)
SplitDotFirst(s) ==
    IF s = <<>> \/ Head(s) = "." THEN <<>>
    ELSE <<Head(s)>> \o SplitDotFirst(Tail(s))

RECURSIVE LStrip(_)
LStrip(s) == IF s # <<>> /\ Head(s) = " " THEN LStrip(Tail(s)) ELSE s

RECURSIVE RStrip(_)
RStrip(s) ==
    IF s # <<>> /\ s[Len(s)] = " " THEN RStrip(SubSeq(s, 1, Len(s) - 1)) ELSE s

\* str.strip()
Strip(s) == RStrip(LStrip(s))

clean_paragraph(value) == Strip(SplitDotFirst(value))

----------------------------------------------------------------------------
(* Part 4 of the script: the pivot table *)

\* the keys of a group-by, sorted: integers by value
SortInts(S) ==
    [i \in 1..Cardinality(S) |->
       CHOOSE x \in S : Cardinality({y \in S : y < x}) = i - 1]

\* the keys of a group-by, sorted: strings in Python's order
SortStrs(S) ==
    [i \in 1..Cardinality(S) |->
       CHOOSE x \in S : Cardinality({y \in S : StrLess(y, x)}) = i - 1]

\* the distinct paragraphs in the order the records name them (sort=False)
RECURSIVE FirstSeen(_, _)
FirstSeen(frame, seen) ==
    IF frame = <<>> THEN <<>>
    ELSE IF Head(frame).paragraf \in seen THEN FirstSeen(Tail(frame), seen)
    ELSE <<Head(frame).paragraf>>
            \o FirstSeen(Tail(frame), seen \cup {Head(frame).paragraf})

PivotColumns_FirstSeen(frame) == FirstSeen(frame, {})

\* the columns of the pivot table: the distinct paragraphs, sorted
PivotColumns(frame) == SortStrs({frame[i].paragraf : i \in DOMAIN frame})

\* the index of the pivot table: the distinct accounts, sorted
PivotIndex(frame) == SortInts({frame[i].konto : i \in DOMAIN frame})

RECURSIVE GroupTotal(_, _, _)
GroupTotal(frame, k, p) ==
    IF frame = <<>> THEN 0
    ELSE (IF Head(frame).konto = k /\ Head(frame).paragraf = p
          THEN Head(frame).kwota ELSE 0) + GroupTotal(Tail(frame), k, p)

RECURSIVE GroupCount(_, _, _)
GroupCount(frame, k, p) ==
    IF frame = <<>> THEN 0
    ELSE (IF Head(frame).konto = k /\ Head(frame).paragraf = p
          THEN 1 ELSE 0) + GroupCount(Tail(frame), k, p)

\* pivot_table's default aggfunc, the mean (here to the integer below)
GroupSum_Mean(frame, k, p) ==
    IF GroupCount(frame, k, p) = 0 THEN 0
    ELSE GroupTotal(frame, k, p) \div GroupCount(frame, k, p)

\* aggfunc='sum' over the rows of one (konto, paragraf) group; a group with
\* no rows gives no cell, which fill_value=0 fills
GroupSum(frame, k, p) ==
    SumSeq([i \in DOMAIN frame |->
              IF frame[i].konto = k /\ frame[i].paragraf = p
              THEN frame[i].kwota ELSE 0])

pivot_table(frame) ==
    LET idx  == PivotIndex(frame)
        cols == PivotColumns(frame)
    IN [index   |-> idx,
        columns |-> cols,
        values  |-> [i \in 1..Len(idx) |->
                       [j \in 1..Len(cols) |-> GroupSum(frame, idx[i], cols[j])]]]

----------------------------------------------------------------------------
(* Part 5 of the script: normalization and the size of the map *)

Column(m, j) == {m[i][j] : i \in DOMAIN m}

SetMin(S) == CHOOSE x \in S : \A y \in S : x <= y

SetMax(S) == CHOOSE x \in S : \A y \in S : x >= y

\* min() and max() with no axis: those of the whole matrix
Normalize_NoAxis(m) ==
    LET all == UNION {Column(m, j) : j \in DOMAIN m[1]}
    IN [i \in DOMAIN m |->
          [j \in DOMAIN m[i] |->
             [num |-> m[i][j] - SetMin(all), den |-> SetMax(all) - SetMin(all)]]]

\* (data_values - min(axis=0)) / (max(axis=0) - min(axis=0) + 1e-10):
\* the entry [num, den] is the number num / (den + 1e-10)
Normalize(m) ==
    [i \in DOMAIN m |->
       [j \in DOMAIN m[i] |->
          [num |-> m[i][j] - SetMin(Column(m, j)),
           den |-> SetMax(Column(m, j)) - SetMin(Column(m, j))]]]

\* floor of the square root
RECURSIVE IsqrtIn(_, _, _)
IsqrtIn(x, lo, hi) ==
    IF lo >= hi THEN lo
    ELSE LET mid == (lo + hi + 1) \div 2
         IN IF mid * mid <= x THEN IsqrtIn(x, mid, hi) ELSE IsqrtIn(x, lo, mid - 1)

Isqrt(x) == IsqrtIn(x, 0, Min2(x, 46340))

\* np.sqrt on a number given in thousandths, the result in thousandths
SqrtMilli(x) == Isqrt(x * 1000)

\* int(5 * np.sqrt(n)) + 2, the heuristic as the comment of line 142 words it
MapSizeOf_Linear(n) == ((5 * SqrtMilli(n * 1000)) \div 1000) + 2

\* int(np.sqrt(5 * np.sqrt(n))) + 2
MapSizeOf(n) == (SqrtMilli(5 * SqrtMilli(n * 1000)) \div 1000) + 2

----------------------------------------------------------------------------
(* MiniSom, as the script uses it (lines 144-147 and 153) *)

\* learning_rate=0.5 of line 144, as <<numerator, denominator>>
learning_rate == <<1, 2>>

\* a normalized entry as MiniSom's number, to the nearest 1/Scale; the
\* 1e-10 of the denominator is far below 1/Scale
Fix(e) == IF e.num = 0 THEN 0 ELSE (2 * e.num * Scale + e.den) \div (2 * e.den)

FixRow(row) == [j \in DOMAIN row |-> Fix(row[j])]

\* one step of the random generator
NextRand(r) == (r * 75 + 74) % 65537

RECURSIVE RandAt(_, _)
\* the state after k steps: k \div 2 steps, then the rest (a state is
\* never negative)
RandAt(r, k) ==
    IF k = 0 THEN r
    ELSE IF k = 1 THEN NextRand(r)
    ELSE LET h == RandAt(r, k \div 2)
         IN IF h >= 0 THEN RandAt(h, k - k \div 2) ELSE h

\* randint(n), from the generator's state
RandInt(r, n) == r % n

Coords(g) == (0..(g - 1)) \X (0..(g - 1))

\* the position of a neuron in the flattened (row-major) activation map
Ravel(c, g) == c[1] * g + c[2]

\* np.unravel_index
Unravel(k, g) == <<k \div g, k % g>>

\* random_weights_init: every neuron, in row-major order, takes a data row
\* picked with randint(len(data))
RandomWeights(data, g, r) ==
    [c \in Coords(g) |->
       data[RandInt(RandAt(r, Ravel(c, g) + 1), Len(data)) + 1]]

\* the squared Euclidean distance of two vectors
Dist2(x, w) == SumSeq([j \in DOMAIN x |-> (x[j] - w[j]) * (x[j] - w[j])])

\* the last minimum of the flattened map instead of the first
Winner_LastMin(w, g, x) ==
    LET act == [k \in 0..(g * g - 1) |-> Dist2(x, w[Unravel(k, g)])]
        k0 == CHOOSE k \in 0..(g * g - 1) :
                 /\ \A m \in 0..(g * g - 1) : act[k] <= act[m]
                 /\ \A m \in (k + 1)..(g * g - 1) : act[m] > act[k]
    IN Unravel(k0, g)

\* winner: argmin of the activation map (the first minimum of the flattened
\* map), unravelled.  The activation is the Euclidean norm of x - w; its
\* square has the same order
Winner(w, g, x) ==
    LET act == [k \in 0..(g * g - 1) |-> Dist2(x, w[Unravel(k, g)])]
        k0 == CHOOSE k \in 0..(g * g - 1) :
                 /\ \A m \in 0..(g * g - 1) : act[k] <= act[m]
                 /\ \A m \in 0..(k - 1) : act[m] > act[k]
    IN Unravel(k0, g)

\* exp(-d2 / (2 sigma^2)) for sigma = 1.0 (line 144), in thousandths;
\* d2 is the squared grid distance to the winner
Gaussian(d2) ==
    CASE d2 = 0  -> 1000
      [] d2 = 1  -> 607
      [] d2 = 2  -> 368
      [] d2 = 4  -> 135
      [] d2 = 5  -> 82
      [] d2 = 8  -> 18
      [] d2 = 9  -> 11
      [] d2 = 10 -> 7
      [] d2 = 13 -> 2
      [] OTHER   -> 0

GridDist2(c, b) == (c[1] - b[1]) * (c[1] - b[1]) + (c[2] - b[2]) * (c[2] - b[2])

\* eta(t) = eta0 / (1 + t / T), as <<numerator, denominator>>
Eta(t, T) == <<learning_rate[1] * T, learning_rate[2] * (T + t)>>

\* w + eta(t) * influence * (x - w), component by component, the step
\* rounded toward zero
UpdateWeight(wv, x, t, T, d2) ==
    [j \in DOMAIN wv |->
       wv[j] + TruncDiv((x[j] - wv[j]) * Eta(t, T)[1] * Gaussian(d2),
                        Eta(t, T)[2] * 1000)]

\* one iteration of train_random on sample x
TrainOnce(w, g, x, t, T) ==
    LET b == Winner(w, g, x)
    IN [c \in DOMAIN w |-> UpdateWeight(w[c], x, t, T, GridDist2(c, b))]

----------------------------------------------------------------------------
(* Part 6 of the script: the groups and their dominant paragraph *)

\* grouped_accounts[winner] = [account_name] on every pass
AddToGroup_Overwrite(groups, coords, account) ==
    IF \E k \in DOMAIN groups : groups[k].coords = coords
    THEN [k \in DOMAIN groups |->
            IF groups[k].coords = coords
            THEN [groups[k] EXCEPT !.accounts = <<account>>]
            ELSE groups[k]]
    ELSE Append(groups, [coords |-> coords, accounts |-> <<account>>])

\* lines 154-156: append the account to the list of its winner, creating
\* the list on first use
AddToGroup(groups, coords, account) ==
    IF \E k \in DOMAIN groups : groups[k].coords = coords
    THEN [k \in DOMAIN groups |->
            IF groups[k].coords = coords
            THEN [groups[k] EXCEPT !.accounts = Append(@, account)]
            ELSE groups[k]]
    ELSE Append(groups, [coords |-> coords, accounts |-> <<account>>])

\* the row of an account in the pivot table
RowOf(p, account) == CHOOSE i \in DOMAIN p.index : p.index[i] = account

\* pivot_df.loc[accounts]: the raw rows of the accounts
GroupVectors(p, accounts) == [k \in DOMAIN accounts |-> p.values[RowOf(p, accounts[k])]]

\* DataFrame.mean(): per column, <<sum, count>> standing for sum / count
ColumnMeans(rows, ncols) ==
    [j \in 1..ncols |-> <<SumSeq([k \in DOMAIN rows |-> rows[k][j]]), Len(rows)>>]

MeanLess(a, b) == a[1] * b[2] < b[1] * a[2]

\* Series.idxmax(): the label of the first maximum
IdxMax(means, labels) ==
    LET j0 == CHOOSE j \in DOMAIN means :
                 /\ \A m \in DOMAIN means : ~MeanLess(means[j], means[m])
                 /\ \A m \in 1..(j - 1) : MeanLess(means[m], means[j])
    IN labels[j0]

TopPara(p, accounts) ==
    IdxMax(ColumnMeans(GroupVectors(p, accounts), Len(p.columns)), p.columns)

----------------------------------------------------------------------------
(* The inputs *)

Konta == {1, 2, 3}

\* paragraphs as the sources give them: "1", "1.0", " 2"
Paragrafy == {<<"1">>, <<"1", ".", "0">>, <<" ", "2">>}

Kwoty == {-1, 2}

Records == [konto : Konta, paragraf : Paragrafy, kwota : Kwoty]

\* the records the whole script is run on: paragraphs "12" and "2"
FewRecords == [konto : Konta, paragraf : {<<"1", "2">>, <<"2">>}, kwota : {1}]

Fresh ==
    /\ pc = "clean"
    /\ df = <<>>
    /\ pivot_df = [index |-> <<>>, columns |-> <<>>, values |-> <<>>]
    /\ data_normalized = <<>>
    /\ map_size = 0
    /\ rng = 0
    /\ weights = <<>>
    /\ iteration = 0
    /\ row_i = 0
    /\ winner = <<>>
    /\ grouped_accounts = <<>>
    /\ group_i = 0
    /\ report = <<>>
    /\ error = "none"

Init ==
    /\ raw_data \in SeqsUpTo(FewRecords, MaxRecords)
    /\ Fresh
    /\ runs = 1
    /\ first_run = <<>>

InitBuild ==
    /\ raw_data \in SeqsUpTo(Records, MaxRecords)
    /\ Fresh
    /\ runs = 1
    /\ first_run = <<>>

\* n accounts, one paragraph, at line 143
InitMapSize ==
    \E n \in 1..MaxRows :
        /\ raw_data = [i \in 1..n |-> [konto |-> i, paragraf |-> <<"1">>, kwota |-> i % 3]]
        /\ df = raw_data
        /\ pivot_df = pivot_table(df)
        /\ data_normalized = Normalize(pivot_df.values)
        /\ pc = "map_size"
        /\ map_size = 0
        /\ rng = 0
        /\ weights = <<>>
        /\ iteration = 0
        /\ row_i = 0
        /\ winner = <<>>
        /\ grouped_accounts = <<>>
        /\ group_i = 0
        /\ report = <<>>
        /\ error = "none"
        /\ runs = 1
        /\ first_run = <<>>

----------------------------------------------------------------------------
(* The statements of the script *)

\* lines 122-126: DataFrame(raw_data) and the two apply calls.  A frame made
\* of no records has no columns, and df['kwota'] raises KeyError
Clean ==
    /\ pc = "clean"
    /\ IF raw_data = <<>>
       THEN /\ error' = "KeyError"
            /\ pc' = "halted"
            /\ df' = df
       ELSE /\ df' = [i \in DOMAIN raw_data |->
                        [konto    |-> raw_data[i].konto,
                         paragraf |-> clean_paragraph(raw_data[i].paragraf),
                         kwota    |-> clean_currency(raw_data[i].kwota)]]
            /\ pc' = "pivot"
            /\ error' = error
    /\ UNCHANGED <<raw_data, pivot_df, data_normalized, map_size, rng, weights,
                   iteration, row_i, winner, grouped_accounts, group_i, report,
                   runs, first_run>>

\* line 130
Pivot ==
    /\ pc = "pivot"
    /\ pivot_df' = pivot_table(df)
    /\ pc' = "normalize"
    /\ UNCHANGED <<raw_data, df, data_normalized, map_size, rng, weights,
                   iteration, row_i, winner, grouped_accounts, group_i, report,
                   error, runs, first_run>>

\* lines 139-140
NormalizeData ==
    /\ pc = "normalize"
    /\ data_normalized' = Normalize(pivot_df.values)
    /\ pc' = "map_size"
    /\ UNCHANGED <<raw_data, df, pivot_df, map_size, rng, weights,
                   iteration, row_i, winner, grouped_accounts, group_i, report,
                   error, runs, first_run>>

\* line 143
MapSize ==
    /\ pc = "map_size"
    /\ map_size' = MapSizeOf(Len(pivot_df.index))
    /\ pc' = "create_som"
    /\ UNCHANGED <<raw_data, df, pivot_df, data_normalized, rng, weights,
                   iteration, row_i, winner, grouped_accounts, group_i, report,
                   error, runs, first_run>>

\* random_weights_init(data_values): the raw values instead of the
\* normalized ones
CreateSom_RawData ==
    /\ pc = "create_som"
    /\ \E seed \in 0..MaxSeed :
          LET data == [i \in DOMAIN pivot_df.values |->
                         [j \in DOMAIN pivot_df.values[i] |->
                            pivot_df.values[i][j] * Scale]]
          IN /\ weights' = RandomWeights(data, map_size, seed)
             /\ rng' = RandAt(seed, map_size * map_size)
    /\ iteration' = 0
    /\ pc' = "train"
    /\ UNCHANGED <<raw_data, df, pivot_df, data_normalized, map_size,
                   row_i, winner, grouped_accounts, group_i, report,
                   error, runs, first_run>>

\* lines 144-146: MiniSom(map_size, map_size, ...) with no random_seed, so the
\* generator is seeded from the system, then random_weights_init
CreateSom ==
    /\ pc = "create_som"
    /\ \E seed \in 0..MaxSeed :
          LET data == [i \in DOMAIN data_normalized |-> FixRow(data_normalized[i])]
          IN /\ weights' = RandomWeights(data, map_size, seed)
             /\ rng' = RandAt(seed, map_size * map_size)
    /\ iteration' = 0
    /\ pc' = "train"
    /\ UNCHANGED <<raw_data, df, pivot_df, data_normalized, map_size,
                   row_i, winner, grouped_accounts, group_i, report,
                   error, runs, first_run>>

\* line 147: one iteration of train_random; after the last one the script
\* goes on to line 151
TrainStep ==
    /\ pc = "train"
    /\ iteration < MaxIter
    /\ LET r == NextRand(rng)
           x == FixRow(data_normalized[RandInt(r, Len(data_normalized)) + 1])
       IN /\ weights' = TrainOnce(weights, map_size, x, iteration, MaxIter)
          /\ rng' = r
    /\ iteration' = iteration + 1
    /\ pc' = IF iteration + 1 = MaxIter THEN "assign" ELSE "train"
    /\ row_i' = IF iteration + 1 = MaxIter THEN 1 ELSE row_i
    /\ UNCHANGED <<raw_data, df, pivot_df, data_normalized, map_size,
                   winner, grouped_accounts, group_i, report,
                   error, runs, first_run>>

\* a pass that also trains the map on the row (som.update in the loop)
AssignStep_Retrain ==
    /\ pc = "assign"
    /\ row_i <= Len(pivot_df.index)
    /\ LET x == FixRow(data_normalized[row_i])
           w == Winner(weights, map_size, x)
       IN /\ winner' = w
          /\ grouped_accounts' = AddToGroup(grouped_accounts, w, pivot_df.index[row_i])
          /\ weights' = TrainOnce(weights, map_size, x, 0, MaxIter)
    /\ row_i' = row_i + 1
    /\ pc' = IF row_i = Len(pivot_df.index) THEN "report" ELSE "assign"
    /\ group_i' = IF row_i = Len(pivot_df.index) THEN 1 ELSE group_i
    /\ UNCHANGED <<raw_data, df, pivot_df, data_normalized, map_size, rng,
                   iteration, report, error, runs, first_run>>

\* lines 152-156: one pass of the loop over zip(pivot_df.index, data_normalized)
AssignStep ==
    /\ pc = "assign"
    /\ row_i <= Len(pivot_df.index)
    /\ LET w == Winner(weights, map_size, FixRow(data_normalized[row_i]))
       IN /\ winner' = w
          /\ grouped_accounts' = AddToGroup(grouped_accounts, w, pivot_df.index[row_i])
    /\ row_i' = row_i + 1
    /\ pc' = IF row_i = Len(pivot_df.index) THEN "report" ELSE "assign"
    /\ group_i' = IF row_i = Len(pivot_df.index) THEN 1 ELSE group_i
    /\ UNCHANGED <<raw_data, df, pivot_df, data_normalized, map_size, rng,
                   weights, iteration, report, error, runs, first_run>>

\* lines 159-166: one pass of the loop over grouped_accounts.items()
ReportStep ==
    /\ pc = "report"
    /\ group_i <= Len(grouped_accounts)
    /\ LET g == grouped_accounts[group_i]
       IN report' = Append(report, [coords   |-> g.coords,
                                    accounts |-> g.accounts,
                                    top_para |-> TopPara(pivot_df, g.accounts)])
    /\ group_i' = group_i + 1
    /\ pc' = IF group_i = Len(grouped_accounts) THEN "done" ELSE "report"
    /\ UNCHANGED <<raw_data, df, pivot_df, data_normalized, map_size, rng,
                   weights, iteration, row_i, winner, grouped_accounts,
                   error, runs, first_run>>

\* the script is started a second time on the same records
Rerun ==
    /\ pc = "done"
    /\ runs = 1
    /\ runs' = 2
    /\ first_run' = grouped_accounts
    /\ pc' = "clean"
    /\ df' = <<>>
    /\ pivot_df' = [index |-> <<>>, columns |-> <<>>, values |-> <<>>]
    /\ data_normalized' = <<>>
    /\ map_size' = 0
    /\ rng' = 0
    /\ weights' = <<>>
    /\ iteration' = 0
    /\ row_i' = 0
    /\ winner' = <<>>
    /\ grouped_accounts' = <<>>
    /\ group_i' = 0
    /\ report' = <<>>
    /\ error' = "none"
    /\ UNCHANGED raw_data

Next ==
    \/ Clean
    \/ Pivot
    \/ NormalizeData
    \/ MapSize
    \/ CreateSom
    \/ TrainStep
    \/ AssignStep
    \/ ReportStep

Spec == Init /\ [][Next]_vars

NextBuild ==
    \/ Clean
    \/ Pivot
    \/ NormalizeData
    \/ MapSize

SpecBuild == InitBuild /\ [][NextBuild]_vars

NextMapSize ==
    \/ MapSize
    \/ CreateSom

SpecMapSize == InitMapSize /\ [][NextMapSize]_vars

NextTwoRuns ==
    \/ Next
    \/ Rerun

SpecTwoRuns == Init /\ [][NextTwoRuns]_vars

----------------------------------------------------------------------------
(* Properties *)

PastPivot == {"normalize", "map_size", "create_som", "train", "assign", "report", "done"}

PastNormalize == {"map_size", "create_som", "train", "assign", "report", "done"}

HasGrid == {"train", "assign", "report", "done"}

EntitiesOf(recs) == {recs[i].konto : i \in DOMAIN recs}

CategoriesOf(recs) == {clean_paragraph(recs[i].paragraf) : i \in DOMAIN recs}

\* the records of raw_data with account e and canonical paragraph c
Matching(e, c) ==
    {i \in DOMAIN raw_data :
        raw_data[i].konto = e /\ clean_paragraph(raw_data[i].paragraf) = c}

RECURSIVE AmountOver(_)
AmountOver(I) ==
    IF I = {} THEN 0
    ELSE LET i == CHOOSE i \in I : TRUE
         IN raw_data[i].kwota + AmountOver(I \ {i})

RowsOf(e) == {i \in DOMAIN pivot_df.index : pivot_df.index[i] = e}

ColsOf(c) == {j \in DOMAIN pivot_df.columns : pivot_df.columns[j] = c}

\* C1: once the pivot table is built, every account e and every canonical
\* paragraph c of the records has exactly one row and one column, the table
\* has a cell for every row and column, and the cell [e][c] is the sum of
\* the amounts of the records of that pair, 0 when there is none.
C1_MatrixComplete ==
    pc \in PastPivot =>
        /\ Len(pivot_df.values) = Len(pivot_df.index)
        /\ \A i \in DOMAIN pivot_df.values :
              Len(pivot_df.values[i]) = Len(pivot_df.columns)
        /\ \A e \in EntitiesOf(raw_data) : \A c \in CategoriesOf(raw_data) :
              /\ Cardinality(RowsOf(e)) = 1
              /\ Cardinality(ColsOf(c)) = 1
              /\ \A i \in RowsOf(e) : \A j \in ColsOf(c) :
                    pivot_df.values[i][j] = AmountOver(Matching(e, c))

\* a cell summed over two records whose paragraphs differ as written, and a
\* cell no record contributes to
C1_Witness ==
    /\ pc \in PastPivot
    /\ \E e \in EntitiesOf(raw_data) : \E c \in CategoriesOf(raw_data) :
          \E i, k \in Matching(e, c) : raw_data[i].paragraf # raw_data[k].paragraf
    /\ \E e \in EntitiesOf(raw_data) : \E c \in CategoriesOf(raw_data) :
          Matching(e, c) = {}

IsColMin(j, v) ==
    /\ \E i \in DOMAIN pivot_df.values : pivot_df.values[i][j] = v
    /\ \A i \in DOMAIN pivot_df.values : v <= pivot_df.values[i][j]

IsColMax(j, v) ==
    /\ \E i \in DOMAIN pivot_df.values : pivot_df.values[i][j] = v
    /\ \A i \in DOMAIN pivot_df.values : v >= pivot_df.values[i][j]

\* C5: the normalized matrix has the shape of the pivot table; the entry of
\* x in column j is (x - min_j) / (max_j - min_j + 1e-10) with min_j and
\* max_j those of column j; it lies in [0, 1] (0 <= num <= den); the column
\* minimum maps to 0; where max_j > min_j the column maximum maps to
\* den / (den + 1e-10) with den >= 1, which is 1 to the model's resolution;
\* a constant column maps to 0 / 1e-10 = 0.
C5_Normalized ==
    pc \in PastNormalize =>
        /\ Len(data_normalized) = Len(pivot_df.index)
        /\ \A i \in DOMAIN data_normalized :
              /\ Len(data_normalized[i]) = Len(pivot_df.columns)
              /\ \A j \in DOMAIN data_normalized[i] :
                    LET e == data_normalized[i][j]
                        x == pivot_df.values[i][j]
                    IN /\ \E mn, mx \in Column(pivot_df.values, j) :
                             /\ IsColMin(j, mn)
                             /\ IsColMax(j, mx)
                             /\ e.num = x - mn
                             /\ e.den = mx - mn
                       /\ 0 <= e.num /\ e.num <= e.den
                       /\ IsColMin(j, x) => e.num = 0 /\ Fix(e) = 0
                       /\ (IsColMax(j, x) /\ ~IsColMin(j, x)) =>
                             e.num = e.den /\ e.den >= 1 /\ Fix(e) = Scale
                       /\ (IsColMax(j, x) /\ IsColMin(j, x)) =>
                             e.num = 0 /\ e.den = 0

\* a matrix with a column that varies and holds a value strictly inside its
\* range (a negative minimum, a filled 0, a positive maximum)
C5_Witness ==
    /\ pc \in PastNormalize
    /\ \E i \in DOMAIN data_normalized : \E j \in DOMAIN data_normalized[i] :
          /\ 0 < data_normalized[i][j].num
          /\ data_normalized[i][j].num < data_normalized[i][j].den
          /\ pivot_df.values[i][j] = 0
          /\ \E k \in DOMAIN pivot_df.values : pivot_df.values[k][j] < 0

\* C6: for n >= 1 accounts, map_size = floor(sqrt(5 sqrt(n))) + 2, that is
\* g = map_size - 2 is the g >= 0 with g^4 <= 25 n < (g + 1)^4, a function of
\* n alone; map_size >= 1, and the grid made is map_size x map_size.
C6_MapSize ==
    pc \in {"create_som"} \cup HasGrid =>
        LET n == Len(pivot_df.index)
            g == map_size - 2
        IN /\ n >= 1
           /\ g >= 0
           /\ g * g * g * g <= 25 * n
           /\ 25 * n < (g + 1) * (g + 1) * (g + 1) * (g + 1)
           /\ map_size >= 1
           /\ pc \in HasGrid => DOMAIN weights = (0..(map_size - 1)) \X (0..(map_size - 1))

\* the grid for 25 accounts, where 5 sqrt(n) is the square 25: 7 x 7
C6_Witness ==
    /\ pc \in HasGrid
    /\ Len(pivot_df.index) = 25
    /\ map_size = 7
    /\ Cardinality(DOMAIN weights) = 49

\* C7 as claimed: when the records give no account or no paragraph (the
\* empty list of records), the script ends with EmptyInputError before
\* anything is normalized, and makes no grid, winner, group or report.
C7_EmptyInputError ==
    ((EntitiesOf(raw_data) = {} \/ CategoriesOf(raw_data) = {}) /\ pc # "clean") =>
        /\ pc = "halted"
        /\ error = "EmptyInputError"
        /\ data_normalized = <<>>
        /\ weights = <<>>
        /\ grouped_accounts = <<>>
        /\ report = <<>>

\* the accounts of all groups, one after the other
RECURSIVE Members(_)
Members(groups) ==
    IF groups = <<>> THEN <<>>
    ELSE Head(groups).accounts \o Members(Tail(groups))

\* C2: when the loop of lines 152-156 is over, the groups partition the
\* accounts of the pivot table: every account is in exactly one group and
\* once, the groups hold nothing else, no group is empty, and no two groups
\* have the same coordinates.
C2_Partition ==
    pc \in {"report", "done"} =>
        LET all == Members(grouped_accounts)
        IN /\ \A e \in EntitiesOf(raw_data) :
                 Cardinality({k \in DOMAIN all : all[k] = e}) = 1
           /\ {all[k] : k \in DOMAIN all} = EntitiesOf(raw_data)
           /\ Len(all) = Len(pivot_df.index)
           /\ \A k \in DOMAIN grouped_accounts : grouped_accounts[k].accounts # <<>>
           /\ \A k, m \in DOMAIN grouped_accounts :
                 grouped_accounts[k].coords = grouped_accounts[m].coords => k = m

\* three accounts in two groups, one of them of two accounts
C2_Witness ==
    /\ pc = "done"
    /\ Len(grouped_accounts) = 2
    /\ \E k \in DOMAIN grouped_accounts : Len(grouped_accounts[k].accounts) = 2

\* the sum of the raw values of paragraph column j over a set of accounts
RECURSIVE RawSum(_, _)
RawSum(A, j) ==
    IF A = {} THEN 0
    ELSE LET a == CHOOSE a \in A : TRUE
         IN pivot_df.values[RowOf(pivot_df, a)][j] + RawSum(A \ {a}, j)

\* C3: the paragraph reported for a group has the largest mean of the raw
\* pivot values over the group's accounts (the means of one group share
\* their count, so the largest sum), and among the paragraphs with that mean
\* it is the first in the order of strings.
C3_Dominant ==
    \A k \in DOMAIN report :
        LET A  == {report[k].accounts[m] : m \in DOMAIN report[k].accounts}
            j0 == CHOOSE j \in DOMAIN pivot_df.columns :
                     pivot_df.columns[j] = report[k].top_para
        IN /\ report[k].top_para \in CategoriesOf(raw_data)
           /\ report[k].coords = grouped_accounts[k].coords
           /\ report[k].accounts = grouped_accounts[k].accounts
           /\ \A j \in DOMAIN pivot_df.columns :
                 /\ RawSum(A, j) <= RawSum(A, j0)
                 /\ (RawSum(A, j) = RawSum(A, j0) /\ j # j0) =>
                       StrLess(report[k].top_para, pivot_df.columns[j])

\* a group whose two paragraphs have the same mean, reported as "12", the
\* records naming paragraph "2" before paragraph "12"
C3_Witness ==
    /\ pc = "done"
    /\ \E k \in DOMAIN report :
          /\ report[k].top_para = <<"1", "2">>
          /\ Len(pivot_df.columns) = 2
          /\ RawSum({report[k].accounts[m] : m \in DOMAIN report[k].accounts}, 1)
               = RawSum({report[k].accounts[m] : m \in DOMAIN report[k].accounts}, 2)
    /\ raw_data[1].paragraf = <<"2">>

\* the squared distance of account row i to neuron c
RowDist2(i, c) == Dist2(FixRow(data_normalized[i]), weights[c])

LexLess(a, b) == a[1] < b[1] \/ (a[1] = b[1] /\ a[2] < b[2])

\* C4: the coordinates an account is grouped under are those of a neuron at
\* the least distance from the account's normalized vector, over all the
\* neurons of the trained grid, and of the neurons at that distance the one
\* first in (row, col) order; the winner just computed is the one of the
\* account of the pass just made.
C4_Winner ==
    pc \in {"assign", "report", "done"} =>
        /\ \A k \in DOMAIN grouped_accounts :
              \A m \in DOMAIN grouped_accounts[k].accounts :
                 LET i == RowOf(pivot_df, grouped_accounts[k].accounts[m])
                     b == grouped_accounts[k].coords
                 IN /\ b \in DOMAIN weights
                    /\ \A c \in DOMAIN weights :
                          /\ RowDist2(i, b) <= RowDist2(i, c)
                          /\ (RowDist2(i, b) = RowDist2(i, c) /\ c # b) => LexLess(b, c)
        /\ row_i > 1 =>
              \E k \in DOMAIN grouped_accounts :
                 /\ grouped_accounts[k].coords = winner
                 /\ grouped_accounts[k].accounts[Len(grouped_accounts[k].accounts)]
                      = pivot_df.index[row_i - 1]

\* an account whose winner is not at <<0, 0>> and ties with another neuron,
\* one in an earlier column of a later row
C4_Witness ==
    /\ pc = "done"
    /\ \E k \in DOMAIN grouped_accounts :
          LET i == RowOf(pivot_df, grouped_accounts[k].accounts[1])
              b == grouped_accounts[k].coords
          IN /\ b # <<0, 0>>
             /\ \E c \in DOMAIN weights :
                   /\ c[1] > b[1]
                   /\ c[2] < b[2]
                   /\ RowDist2(i, b) = RowDist2(i, c)

\* C9: the weights change only in lines 144-147; the passes of the loops of
\* lines 152-166 leave the weights, the size of the grid, the pivot table
\* and the normalized matrix alone; the grid keeps its shape once made; and
\* the first pass of the loop of lines 152-156 comes after the last
\* training iteration.
C9_Frame ==
    [][/\ (weights' # weights => pc \in {"create_som", "train"})
       /\ (pc \in {"assign", "report", "done"} =>
              /\ weights' = weights
              /\ map_size' = map_size
              /\ pivot_df' = pivot_df
              /\ data_normalized' = data_normalized)
       /\ (pc \in HasGrid => DOMAIN weights' = DOMAIN weights)
       /\ (pc' \in {"assign", "report", "done"} => iteration' = MaxIter)
       /\ (grouped_accounts' # grouped_accounts => iteration = MaxIter)]_vars

\* the script has ended, after a training that moved a weight and a
\* report of two groups
C9_Witness ==
    /\ pc = "done"
    /\ iteration = MaxIter
    /\ Len(report) = 2
    /\ \E c \in DOMAIN weights :
          \A i \in DOMAIN data_normalized : weights[c] # FixRow(data_normalized[i])

FixColumn(j) == {Fix(data_normalized[i][j]) : i \in DOMAIN data_normalized}

\* C10: from random_weights_init on, every component of every weight lies
\* between the least and the largest value of its column of the normalized
\* data as MiniSom reads it, and so in [0, 1] (0..Scale).
C10_WeightsInRange ==
    pc \in HasGrid =>
        \A c \in DOMAIN weights : \A j \in DOMAIN weights[c] :
            /\ \E lo, hi \in FixColumn(j) :
                  lo <= weights[c][j] /\ weights[c][j] <= hi
            /\ 0 <= weights[c][j]
            /\ weights[c][j] <= Scale

\* training is over and a weight lies strictly inside the range of its
\* column, at a value that is no data value
C10_Witness ==
    /\ pc \in {"assign", "report", "done"}
    /\ \E c \in DOMAIN weights : \E j \in DOMAIN weights[c] :
          /\ weights[c][j] \notin FixColumn(j)
          /\ 0 < weights[c][j]
          /\ weights[c][j] < Scale

AssignmentOf(groups) ==
    UNION {{<<groups[k].accounts[m], groups[k].coords>> :
               m \in DOMAIN groups[k].accounts} : k \in DOMAIN groups}

====
